---- MODULE Spec2Model ----
(***************************************************************************)
(* Stock-aware forex order pipeline of Prithvi-Exchange/Backend-Service.   *)
(*                                                                         *)
(* State: the markup_fees table (ledger), the forex_requests table         *)
(* (orders) and, for every request being handled, the handler's position   *)
(* and local variables.  Every `await` on the database is a point where    *)
(* another request may run, so a handler is one action per database        *)
(* access.  Amounts are whole currency units; on whole numbers parseFloat, *)
(* toFixed(4) and the DECIMAL(15,4) column all keep the value.             *)
(***************************************************************************)
EXTENDS Integers, Sequences, FiniteSets, TLC

\* ------------------------------------------------------------------ bounds
MaxOrders == 2
MaxRows == 5
MaxCalls == 2
MaxTokens == 3

OrderIds == 1..MaxOrders
RowIds == 1..MaxRows
Procs == {1, 2}
Tokens == 1..MaxTokens
Users == {1}

\* --------------------------------------------------------- static tables
TransactionTypes == {"CASH", "CARD", "TT", "SELLCASH", "SELLCARD"}
Statuses == {"Pending", "Approved", "Rejected", "Documents Requested"}

mapProductToTransactionType(product) ==
  CASE product = "Forex Card" -> "CARD"
    [] product = "Cash" -> "CASH"
    [] product = "Traveler Cheque" -> "CASH"
    [] product = "Wire Transfer" -> "TT"
    [] product = "Sell Cash" -> "SELLCASH"
    [] product = "Sell Card" -> "SELLCARD"
    [] OTHER -> "CASH"

BaseDocs == {"panCardImage", "passportFrontImage", "passportBackImage", "airTicket", "visaImage"}
BusinessDocs == {"cancelledCheque", "companyAddressProof", "signatoriesList"}
Purposes == {"Leisure/Holiday/Personal Visit", "Business Visit", "Education",
             "Medical Treatment", "Emigration", "Employment"}

\* documentRequirements[purpose]?.required || []
documentRequirements(purpose) ==
  CASE purpose = "Leisure/Holiday/Personal Visit" -> BaseDocs
    [] purpose = "Business Visit" -> BaseDocs \cup BusinessDocs
    [] purpose = "Education" -> BaseDocs \cup {"collegeLetter"}
    [] purpose = "Medical Treatment" -> BaseDocs \cup {"medicalCertificate"}
    [] purpose = "Emigration" -> BaseDocs \cup {"emigrationCertificate"}
    [] purpose = "Employment" -> BaseDocs \cup {"employmentCertificate"}
    [] OTHER -> {}

businessFields == {"businessReason", "businessName", "businessType"}
SellDocs == {"panCardImage", "passportFrontImage", "passportBackImage"}
SellProducts == {"Sell Cash", "Sell Card"}

\* ------------------------------------------------------------------ state
VARIABLES
  ledger,            \* markup_fees: row id -> MarkupFee row
  orders,            \* forex_requests: order id -> ForexRequest row
  orderResult,      \* response code of the last create/update of an order
  pc,                \* position of each updateStatus handler
  req,               \* its request: params.id, body.status, body.rejectionReason
  forexRequest,      \* its local forexRequest (result of findByPk)
  idx,               \* index of the order line the deduction loop is at
  markupFee,         \* row id held by the local markupFee instance (0: none)
  currentQuantity,   \* its local currentQuantity
  deductionResults,  \* its local deductionResults
  response,          \* the response code it sent
  adminResult,       \* response code of the last admin ledger request
  stockPc,           \* position of the updateStock handler
  stockReq,          \* its request: params.id, body.quantity, body.operation
  stockCurrent,      \* its local currentQuantity
  calls,             \* history: number of requests started
  successes,         \* history: per order, approvals that reported success
  startQty,          \* history: per handler, the quantities when it started
  missing,           \* the missing fields its error response lists
  rates,             \* response data of the last rate endpoint
  currencies,        \* currencies: the rates cached per currency of the city
  stockValidation,   \* the last response of POST /api/stock/validate
  errors,            \* the fields the last error response of the intake lists
  refreshTokens,     \* refresh_tokens: token -> RefreshToken row
  refreshPc,         \* position of each refreshTokens call
  refreshReq,        \* the refresh token it presents
  refreshUser,       \* its local user (result of verifyRefreshToken)
  authResult,        \* the outcome of each refreshTokens call
  refreshed          \* history: per token, the calls that issued new tokens with it

vars == <<ledger, orders, orderResult, pc, req, forexRequest, idx, markupFee,
          currentQuantity, deductionResults, response, adminResult, stockPc,
          stockReq, stockCurrent, calls, successes, startQty, missing, rates,
          currencies, stockValidation, errors, refreshTokens, refreshPc,
          refreshReq, refreshUser, authResult, refreshed>>

adminVars == <<adminResult, stockPc, stockReq, stockCurrent>>

procVars == <<pc, req, forexRequest, idx, markupFee, currentQuantity,
              deductionResults, response, successes, startQty, missing>>

readVars == <<rates, currencies, stockValidation>>

authVars == <<refreshTokens, refreshPc, refreshReq, refreshUser, authResult, refreshed>>

\* ----------------------------------------------------------------- ledger
NoRow ==
  [exists |-> FALSE, currency_code |-> "", city_code |-> "", transaction_type |-> "",
   markup_type |-> "", markup_value |-> 0, markup_value_sell |-> 0,
   gst_percentage |-> 0, quantity |-> 0, isActive |-> FALSE, order |-> 0]

Row(cur, city, tt, qty) ==
  [exists |-> TRUE, currency_code |-> cur, city_code |-> city, transaction_type |-> tt,
   markup_type |-> "paisa", markup_value |-> 10000, markup_value_sell |-> 0,
   gst_percentage |-> 1800, quantity |-> qty, isActive |-> TRUE, order |-> 0]

\* the configured ledger: USD in DEL for cash, sell-cash and card; no TT row
InitLedger ==
  [r \in RowIds |->
     CASE r = 1 -> Row("USD", "DEL", "CASH", 100)
       [] r = 2 -> Row("USD", "DEL", "SELLCASH", 200)
       [] r = 3 -> Row("USD", "DEL", "CARD", 500)
       [] OTHER -> NoRow]

\* MarkupFee.findOne({currency_code, city_code, transaction_type, isActive: true}):
\* the rows the query matches; findOne returns any one of them
FindActive(led, currency, city, transactionType) ==
  {r \in RowIds : /\ led[r].exists
                  /\ led[r].currency_code = currency
                  /\ led[r].city_code = city
                  /\ led[r].transaction_type = transactionType
                  /\ led[r].isActive}

\* ----------------------------------------------------------------- orders
NoOrder ==
  [exists |-> FALSE, orderType |-> "", orderDetails |-> <<>>, currency |-> "",
   product |-> "", currencyAmount |-> 0, amountInINR |-> 0, city |-> "",
   purpose |-> "", docs |-> {}, business |-> {}, status |-> "",
   rejectionReason |-> "", stockDeducted |-> FALSE]

Line(ot, cur, prod, amt) ==
  [orderType |-> ot, currency |-> cur, product |-> prod, currencyAmount |-> amt,
   amountInINR |-> amt * 83]

\* a request body of POST /forex-requests.  hasOrderDetails: the key is present;
\* "" and 0 stand for an absent field; status/stockDeducted/rejectionReason are
\* not fields of the form but nothing removes them from the body
Payload(ot, hasOD, od, cur, prod, amt, purpose, docs, business) ==
  [orderType |-> ot, hasOrderDetails |-> hasOD, orderDetails |-> od, currency |-> cur,
   product |-> prod, currencyAmount |-> amt, amountInINR |-> amt * 83, city |-> "DEL",
   purpose |-> purpose, docs |-> docs, business |-> business, status |-> "",
   rejectionReason |-> "", stockDeducted |-> "absent"]

\* String.prototype.toUpperCase on the codes the requests carry
toUpperCase(s) ==
  CASE s = "usd" -> "USD"
    [] s = "del" -> "DEL"
    [] OTHER -> s

\* the outcomes of one findOne per line: 0 when the query matches no row
FindOneChoices(led, lines, city) ==
  {sel \in [1..Len(lines) -> RowIds \cup {0}] :
     \A i \in 1..Len(lines) :
       LET found == FindActive(led, toUpperCase(lines[i].currency), toUpperCase(city),
                               mapProductToTransactionType(lines[i].product))
       IN IF found = {} THEN sel[i] = 0 ELSE sel[i] \in found}

\* validateStockAvailabilityFromMarkup: TRUE when it returns, FALSE when it throws
\* (no row for a line, or availableQuantity < parseFloat(currencyAmount))
StockLineValid(led, r, line) ==
  /\ r # 0
  /\ ~(led[r].quantity < line.currencyAmount)

validateStockAvailabilityFromMarkup(led, lines, sel) ==
  \A i \in 1..Len(lines) : StockLineValid(led, sel[i], lines[i])

\* ------------------------------------------- POST /forex-requests (create)
\* the per-line checks shared by the route validator, the controller and the model
LineFieldsPresent(l) ==
  /\ l.orderType # ""
  /\ l.currency # ""
  /\ l.product # ""
  /\ l.currencyAmount # 0
  /\ l.amountInINR # 0

LinePositive(l) ==
  /\ ~(l.currencyAmount <= 0)
  /\ ~(l.amountInINR <= 0)

\* ForexRequest.orderDetails validate.isValidOrderDetails
isValidOrderDetails(od) ==
  \A i \in 1..Len(od) : LineFieldsPresent(od[i]) /\ LinePositive(od[i])

\* validationResult(req): the fields the rules of validateForexRequest found in
\* error, for the fields of the model (the traveller, delivery and date rules
\* are taken to pass)
validationResult(b) ==
  {f \in {"orderType"} : b.orderType \notin {"Buy", "Sell"}}
  \cup {f \in {"orderDetails"} : b.hasOrderDetails /\ ~isValidOrderDetails(b.orderDetails)}
  \cup {f \in {"currency"} : ~b.hasOrderDetails /\ b.currency = ""}
  \cup {f \in {"product"} : ~b.hasOrderDetails /\ b.product = ""}
  \cup {f \in {"currencyAmount"} : ~b.hasOrderDetails /\ ~(b.currencyAmount >= 1)}
  \cup {f \in {"amountInINR"} : ~b.hasOrderDetails /\ ~(b.amountInINR >= 1)}
  \cup {f \in {"purpose"} : b.orderType = "Buy" /\ b.purpose \notin Purposes}
  \cup {f \in businessFields : b.purpose = "Business Visit" /\ f \notin b.business}

\* handleValidationErrors: TRUE when it calls next()
validateForexRequest(b) == validationResult(b) = {}

\* validateRequiredDocuments: the documents its response lists
missingRequiredDocs(b) ==
  IF b.orderType = "Sell" \/ b.purpose \notin Purposes THEN {}
  ELSE documentRequirements(b.purpose) \ b.docs

\* validateRequiredDocuments: TRUE when it calls next()
validateRequiredDocuments(b) ==
  \/ b.orderType = "Sell"
  \/ b.purpose \notin Purposes
  \/ documentRequirements(b.purpose) \subseteq b.docs

\* createForexRequest: the fields its error response names.  The loop over the
\* lines answers at the first field missing, the Sell check lists missingFields,
\* the product check names the product, the Buy check lists missingBuyFields
CreateFieldList(b) ==
  LET hasLines == b.hasOrderDetails /\ Len(b.orderDetails) > 0 IN
  IF hasLines /\ \E i \in 1..Len(b.orderDetails) : ~LineFieldsPresent(b.orderDetails[i])
    THEN {"orderDetails"}
  ELSE IF b.orderType = "Sell" THEN
    IF ~(SellDocs \subseteq b.docs) THEN SellDocs \ b.docs
    ELSE {"product"}
  ELSE
    {f \in {"currency"} : ~hasLines /\ b.currency = ""}
    \cup {f \in {"currencyAmount"} : ~hasLines /\ b.currencyAmount = 0}
    \cup {f \in {"product"} : ~hasLines /\ b.product = ""}
    \cup {f \in {"city"} : b.city = ""}
    \cup {f \in {"purpose"} : b.purpose = ""}

\* the lines createForexRequest hands to the stock validation; <<>>: none
CreateStockLines(b) ==
  IF b.hasOrderDetails /\ Len(b.orderDetails) > 0 THEN b.orderDetails
  ELSE IF b.orderType = "Sell" THEN <<>>
  ELSE <<[orderType |-> "", currency |-> b.currency, product |-> b.product,
          currencyAmount |-> b.currencyAmount, amountInINR |-> 0]>>

\* the row ForexRequest.create(createData) inserts: the body spread into the
\* row, with the column defaults for what the body does not carry
CreateData(b) ==
  [exists |-> TRUE, orderType |-> b.orderType,
   orderDetails |-> IF b.hasOrderDetails THEN b.orderDetails ELSE <<>>,
   currency |-> b.currency, product |-> b.product,
   currencyAmount |-> b.currencyAmount, amountInINR |-> b.amountInINR,
   city |-> b.city, purpose |-> b.purpose, docs |-> b.docs, business |-> b.business,
   status |-> IF b.status = "" THEN "Pending" ELSE b.status,
   rejectionReason |-> b.rejectionReason,
   stockDeducted |-> (b.stockDeducted = "true")]

\* the response code of the controller before it touches the ledger; "" when
\* it goes on to the stock validation
CreateFieldError(b) ==
  LET hasLines == b.hasOrderDetails /\ Len(b.orderDetails) > 0 IN
  IF hasLines /\ \E i \in 1..Len(b.orderDetails) : ~LineFieldsPresent(b.orderDetails[i])
    THEN "MISSING_ORDER_LINE_FIELD"
  ELSE IF b.orderType = "Sell" THEN
    IF ~(SellDocs \subseteq b.docs) THEN "MISSING_REQUIRED_FIELDS_SELL"
    ELSE IF hasLines /\ \E i \in 1..Len(b.orderDetails) :
                           b.orderDetails[i].product \notin SellProducts
      THEN "INVALID_SELL_PRODUCT"
    ELSE ""
  ELSE
    IF ~hasLines /\ (b.currency = "" \/ b.currencyAmount = 0 \/ b.product = "")
      THEN "MISSING_REQUIRED_FIELDS_BUY"
    ELSE IF b.city = "" \/ b.purpose = "" THEN "MISSING_REQUIRED_FIELDS_BUY"
    ELSE ""

FreeOrderIds == {o \in OrderIds : ~orders[o].exists}

\* router.post('/', validateForexRequest, validateRequiredDocuments,
\*             handleValidationErrors, createForexRequest)
createForexRequest(b) ==
  /\ FreeOrderIds # {}
  /\ LET id == CHOOSE o \in FreeOrderIds : \A o2 \in FreeOrderIds : o <= o2
         lines == CreateStockLines(b)
     IN IF ~validateRequiredDocuments(b) THEN
             /\ orderResult' = "MISSING_REQUIRED_DOCUMENTS"
             /\ errors' = missingRequiredDocs(b)
             /\ orders' = orders
        ELSE IF ~validateForexRequest(b) THEN
             /\ orderResult' = "VALIDATION_ERROR"
             /\ errors' = validationResult(b)
             /\ orders' = orders
        ELSE IF CreateFieldError(b) # "" THEN
             /\ orderResult' = CreateFieldError(b)
             /\ errors' = CreateFieldList(b)
             /\ orders' = orders
        ELSE \E sel \in FindOneChoices(ledger, lines, b.city) :
             IF /\ validateStockAvailabilityFromMarkup(ledger, lines, sel)
                /\ isValidOrderDetails(CreateData(b).orderDetails)
                /\ CreateData(b).status \in Statuses
             THEN /\ orderResult' = "created"
                  /\ errors' = {}
                  /\ orders' = [orders EXCEPT ![id] = CreateData(b)]
             ELSE /\ orderResult' = "CREATE_FOREX_REQUEST_ERROR"
                  /\ errors' = {}
                  /\ orders' = orders
  /\ UNCHANGED <<ledger, adminVars, calls, authVars>>
  /\ UNCHANGED procVars
  /\ UNCHANGED readVars

\* ------------------------------------ PATCH /forex-requests/:id/status
NoRequest == [id |-> 0, status |-> "", rejectionReason |-> ""]

Idle(p) == pc[p] \in {"idle", "done"}

\* the list updateStatus hands to deductStockFromMarkup: orderDetails, or for an
\* order without lines the one element {currency, currencyAmount, product}
\* (it carries no orderType)
DeductionLines(fr) ==
  IF Len(fr.orderDetails) > 0 THEN fr.orderDetails
  ELSE <<[orderType |-> "", currency |-> fr.currency, product |-> fr.product,
          currencyAmount |-> fr.currencyAmount, amountInINR |-> 0]>>

\* deductStockFromMarkup: newQuantity of one line
NewQuantity(current, line) ==
  IF line.orderType = "Buy" THEN current - line.currencyAmount
  ELSE current + line.currencyAmount

\* the guard left out: every computed quantity is written
InsufficientForDeduction_Unchecked(newQuantity) == FALSE

\* deductStockFromMarkup: the guard that throws "Insufficient stock for deduction"
InsufficientForDeduction(newQuantity) == newQuantity < 0

Finish(p, code) ==
  /\ pc' = [pc EXCEPT ![p] = "done"]
  /\ response' = [response EXCEPT ![p] = code]

\* the data of an error response: missingDocuments or missingBusinessFields
Lists(p, fields) == missing' = [missing EXCEPT ![p] = fields]

\* no document is ever missing
missingDocs_None(fr) == {}

\* requiredDocs.filter(docField => !forexRequest[docField])
missingDocs(fr) == documentRequirements(fr.purpose) \ fr.docs

\* businessFields.filter(field => !forexRequest[field])
missingBusinessFields(fr) == businessFields \ fr.business

\* from the status check to the end of the approval gate (one findByPk)
BeginUpdateStatus(p, id, status, rejectionReason) ==
  /\ Idle(p)
  /\ calls < MaxCalls
  /\ calls' = calls + 1
  /\ req' = [req EXCEPT ![p] = [id |-> id, status |-> status,
                                rejectionReason |-> rejectionReason]]
  /\ forexRequest' = [forexRequest EXCEPT ![p] = orders[id]]
  /\ startQty' = [startQty EXCEPT ![p] = [r \in RowIds |-> ledger[r].quantity]]
  /\ idx' = [idx EXCEPT ![p] = 1]
  /\ markupFee' = [markupFee EXCEPT ![p] = 0]
  /\ currentQuantity' = [currentQuantity EXCEPT ![p] = 0]
  /\ deductionResults' = [deductionResults EXCEPT ![p] = <<>>]
  /\ LET fr == orders[id] IN
     IF status \notin Statuses THEN Finish(p, "INVALID_STATUS") /\ Lists(p, {})
     ELSE IF ~fr.exists THEN Finish(p, "FOREX_REQUEST_NOT_FOUND") /\ Lists(p, {})
     ELSE IF status = "Approved" THEN
       IF missingDocs(fr) # {}
         THEN Finish(p, "MISSING_APPROVAL_DOCUMENTS") /\ Lists(p, missingDocs(fr))
       ELSE IF fr.purpose = "Business Visit" /\ missingBusinessFields(fr) # {}
         THEN Finish(p, "MISSING_BUSINESS_FIELDS") /\ Lists(p, missingBusinessFields(fr))
       ELSE /\ pc' = [pc EXCEPT ![p] = "findOne"]
            /\ response' = [response EXCEPT ![p] = ""]
            /\ Lists(p, {})
     ELSE IF status = "Rejected" /\ rejectionReason = ""
       THEN Finish(p, "MISSING_REJECTION_REASON") /\ Lists(p, {})
     ELSE /\ pc' = [pc EXCEPT ![p] = "setStatus"]
          /\ response' = [response EXCEPT ![p] = ""]
          /\ Lists(p, {})
  /\ UNCHANGED <<ledger, orders, orderResult, errors, authVars, adminVars, successes>>
  /\ UNCHANGED readVars

\* an update that also deactivates the row
markupFeeUpdate_Deactivating(led, r, newQuantity) ==
  [led EXCEPT ![r].quantity = newQuantity, ![r].isActive = FALSE]

\* markupFee.update({quantity: newQuantity}) on the instance of row r: the
\* UPDATE changes that column of the row, if the row is still there
markupFeeUpdate(led, r, newQuantity) ==
  IF led[r].exists THEN [led EXCEPT ![r].quantity = newQuantity] ELSE led

\* deductStockFromMarkup, one line: MarkupFee.findOne and the stock guard
DeductFindOne(p) ==
  /\ pc[p] = "findOne"
  /\ LET fr == forexRequest[p]
         line == DeductionLines(fr)[idx[p]]
         found == FindActive(ledger, toUpperCase(line.currency), toUpperCase(fr.city),
                             mapProductToTransactionType(line.product))
     IN IF line.currency = "" \/ fr.city = "" \/ found = {} THEN
             /\ Finish(p, "STOCK_DEDUCTION_ERROR")
             /\ UNCHANGED <<markupFee, currentQuantity>>
        ELSE \E r \in found :
             IF InsufficientForDeduction(NewQuantity(ledger[r].quantity, line)) THEN
                  /\ Finish(p, "STOCK_DEDUCTION_ERROR")
                  /\ UNCHANGED <<markupFee, currentQuantity>>
             ELSE /\ markupFee' = [markupFee EXCEPT ![p] = r]
                  /\ currentQuantity' = [currentQuantity EXCEPT ![p] = ledger[r].quantity]
                  /\ pc' = [pc EXCEPT ![p] = "update"]
                  /\ UNCHANGED response
  /\ UNCHANGED <<ledger, orders, orderResult, errors, authVars, adminVars, calls, req, forexRequest,
                 idx, deductionResults, successes, startQty, missing>>
  /\ UNCHANGED readVars

\* deductStockFromMarkup, one line: markupFee.update({quantity: newQuantity})
\* writes the quantity computed from the value read by findOne
DeductUpdate(p) ==
  /\ pc[p] = "update"
  /\ LET lines == DeductionLines(forexRequest[p])
         line == lines[idx[p]]
         newQuantity == NewQuantity(currentQuantity[p], line)
         r == markupFee[p]
     IN /\ ledger' = markupFeeUpdate(ledger, r, newQuantity)
        /\ deductionResults' =
             [deductionResults EXCEPT ![p] =
                Append(@, [row |-> r, product |-> line.product,
                           previousQuantity |-> currentQuantity[p],
                           newQuantity |-> newQuantity,
                           amountDeducted |-> line.currencyAmount])]
        /\ IF idx[p] < Len(lines)
             THEN /\ idx' = [idx EXCEPT ![p] = idx[p] + 1]
                  /\ pc' = [pc EXCEPT ![p] = "findOne"]
             ELSE /\ idx' = idx
                  /\ pc' = [pc EXCEPT ![p] = "approve"]
  /\ UNCHANGED <<orders, orderResult, errors, authVars, adminVars, calls, req, forexRequest,
                 markupFee, currentQuantity, response, successes, startQty, missing>>
  /\ UNCHANGED readVars

\* ForexRequest.update({status: 'Approved', stockDeducted: true}, {where: {id}})
\* and the response
ApproveUpdate(p) ==
  /\ pc[p] = "approve"
  /\ LET id == req[p].id IN
     IF orders[id].exists THEN
          /\ orders' = [orders EXCEPT ![id].status = "Approved",
                                      ![id].stockDeducted = TRUE]
          /\ successes' = [successes EXCEPT ![id] = @ + 1]
          /\ Finish(p, "success")
     ELSE /\ UNCHANGED <<orders, successes>>
          /\ Finish(p, "STOCK_DEDUCTION_ERROR")
  /\ UNCHANGED <<ledger, orderResult, errors, authVars, adminVars, calls, req, forexRequest, idx,
                 markupFee, currentQuantity, deductionResults, startQty, missing>>
  /\ UNCHANGED readVars

\* a row that is also marked as deducted
updateData_Deducting(o, r) ==
  [o EXCEPT !.status = r.status, !.stockDeducted = TRUE]

\* the row after ForexRequest.update(updateData): updateData is {status} and,
\* for Rejected, the rejectionReason of the request
updateData(o, r) ==
  [o EXCEPT !.status = r.status,
            !.rejectionReason = IF r.status = "Rejected" THEN r.rejectionReason ELSE @]

\* the other targets: ForexRequest.update(updateData, {where: {id}})
SetStatus(p) ==
  /\ pc[p] = "setStatus"
  /\ LET id == req[p].id IN
     IF orders[id].exists THEN
          /\ orders' = [orders EXCEPT ![id] = updateData(@, req[p])]
          /\ Finish(p, "success")
     ELSE /\ UNCHANGED orders
          /\ Finish(p, "FOREX_REQUEST_NOT_FOUND")
  /\ UNCHANGED <<ledger, orderResult, errors, authVars, adminVars, calls, req, forexRequest, idx,
                 markupFee, currentQuantity, deductionResults, successes, startQty,
                 missing>>
  /\ UNCHANGED readVars

\* the steps of an approval
approve(p) ==
  \/ DeductFindOne(p)
  \/ DeductUpdate(p)
  \/ ApproveUpdate(p)

updateStatus(p) ==
  \/ approve(p)
  \/ SetStatus(p)

\* ------------------------------------------------ PUT /forex-requests/:id
\* a request body: the columns it carries (status, purpose and stockDeducted;
\* "" and "absent" when it does not) and the document and business fields it
\* sets to the empty string
UpdateBody(status, purpose, emptied, stockDeducted) ==
  [status |-> status, purpose |-> purpose, emptied |-> emptied,
   stockDeducted |-> stockDeducted]

\* ForexRequest.update(req.body, {where: {id}}): every column of the body is written
updateForexRequest(id, b) ==
  /\ IF ~orders[id].exists THEN
          /\ orderResult' = "FOREX_REQUEST_NOT_FOUND"
          /\ orders' = orders
     ELSE IF b.status # "" /\ b.status \notin Statuses THEN
          /\ orderResult' = "UPDATE_REQUEST_ERROR"
          /\ orders' = orders
     ELSE /\ orderResult' = "updated"
          /\ orders' = [orders EXCEPT
                          ![id].status = IF b.status # "" THEN b.status ELSE @,
                          ![id].purpose = IF b.purpose # "" THEN b.purpose ELSE @,
                          ![id].stockDeducted =
                             IF b.stockDeducted # "absent" THEN b.stockDeducted = "true"
                             ELSE @,
                          ![id].docs = @ \ b.emptied,
                          ![id].business = @ \ b.emptied]
  /\ errors' = {}
  /\ UNCHANGED <<ledger, adminVars, calls, authVars>>
  /\ UNCHANGED procVars
  /\ UNCHANGED readVars

\* ------------------------------------------------------ /api/markup-fees
\* a request body of the markup-fee endpoints: given is the set of keys it
\* carries, the other fields are ignored
FeeBody(given, cur, tt, mtype, qty, active, ord) ==
  [given |-> given, currency_code |-> cur, city_code |-> "DEL", transaction_type |-> tt,
   markup_type |-> mtype, markup_value |-> 10000, markup_value_sell |-> 0,
   gst_percentage |-> 1800, quantity |-> qty, isActive |-> active, order |-> ord]

CreateKeys == {"currency_code", "curr_des", "city_code", "transaction_type",
               "markup_type", "markup_value"}

FreeRowIds == {r \in RowIds : ~ledger[r].exists}

LowestFree(n) == {r \in FreeRowIds : Cardinality({q \in FreeRowIds : q < r}) < n}

\* findOne({currency_code, city_code, transaction_type, markup_type})
ExistingFee(b) ==
  \E r \in RowIds : /\ ledger[r].exists
                    /\ ledger[r].currency_code = toUpperCase(b.currency_code)
                    /\ ledger[r].city_code = b.city_code
                    /\ ledger[r].transaction_type = b.transaction_type
                    /\ ledger[r].markup_type = b.markup_type

\* findOne({city_code, order}) when the body carries order; `except` is the row
\* the update endpoint excludes
ExistingOrder(city, b, except) ==
  /\ "order" \in b.given
  /\ \E r \in RowIds \ {except} : /\ ledger[r].exists
                                  /\ ledger[r].city_code = city
                                  /\ ledger[r].order = b.order

\* the row both create endpoints insert: quantity is parseFloat(quantity).toFixed(4)
\* when the body carries a truthy quantity and '0.0000' otherwise, gst_percentage
\* '18.00' without a truthy one, markup_value_sell null without a truthy one
NewFeeRow(b) ==
  [exists |-> TRUE, currency_code |-> toUpperCase(b.currency_code),
   city_code |-> b.city_code, transaction_type |-> b.transaction_type,
   markup_type |-> b.markup_type, markup_value |-> b.markup_value,
   markup_value_sell |-> IF "markup_value_sell" \in b.given THEN b.markup_value_sell ELSE 0,
   gst_percentage |-> IF "gst_percentage" \in b.given /\ b.gst_percentage # 0
                        THEN b.gst_percentage ELSE 1800,
   quantity |-> IF "quantity" \in b.given /\ b.quantity # 0 THEN b.quantity ELSE 0,
   isActive |-> IF "isActive" \in b.given THEN b.isActive ELSE TRUE,
   order |-> IF "order" \in b.given THEN b.order ELSE 0]

createMarkupFee(b) ==
  /\ FreeRowIds # {}
  /\ IF ~(CreateKeys \subseteq b.given) \/ b.markup_value = 0 THEN
          /\ adminResult' = "MISSING_FIELDS"
          /\ ledger' = ledger
     ELSE IF ExistingFee(b) THEN
          /\ adminResult' = "DUPLICATE_MARKUP_FEE"
          /\ ledger' = ledger
     ELSE IF ExistingOrder(b.city_code, b, 0) THEN
          /\ adminResult' = "DUPLICATE_ORDER"
          /\ ledger' = ledger
     ELSE /\ adminResult' = "created"
          /\ \E r \in LowestFree(1) : ledger' = [ledger EXCEPT ![r] = NewFeeRow(b)]
  /\ UNCHANGED <<orders, orderResult, errors, authVars, stockPc, stockReq, stockCurrent, calls>>
  /\ UNCHANGED procVars
  /\ UNCHANGED readVars

\* every fee is checked against the table, then MarkupFee.bulkCreate inserts all
bulkCreateMarkupFees(fees) ==
  /\ Cardinality(FreeRowIds) >= Len(fees)
  /\ IF Len(fees) = 0 THEN
          /\ adminResult' = "INVALID_FEES_ARRAY"
          /\ ledger' = ledger
     ELSE IF \E i \in 1..Len(fees) :
                  ExistingOrder(fees[i].city_code, fees[i], 0) \/ ExistingFee(fees[i]) THEN
          /\ LET bad == {i \in 1..Len(fees) :
                           ExistingOrder(fees[i].city_code, fees[i], 0) \/ ExistingFee(fees[i])}
                 first == CHOOSE i \in bad : \A j \in bad : i <= j
             IN adminResult' = IF ExistingOrder(fees[first].city_code, fees[first], 0)
                                 THEN "DUPLICATE_ORDER" ELSE "DUPLICATE_MARKUP_FEE"
          /\ ledger' = ledger
     ELSE /\ adminResult' = "created"
          /\ LET ids == LowestFree(Len(fees))
                 nth(r) == Cardinality({q \in ids : q <= r})
             IN ledger' = [r \in RowIds |->
                             IF r \in ids THEN NewFeeRow(fees[nth(r)]) ELSE ledger[r]]
  /\ UNCHANGED <<orders, orderResult, errors, authVars, stockPc, stockReq, stockCurrent, calls>>
  /\ UNCHANGED procVars
  /\ UNCHANGED readVars

\* updateData holds the keys the body carries; markupFee.update(updateData)
updateMarkupFee(id, b) ==
  /\ IF ~ledger[id].exists THEN
          /\ adminResult' = "MARKUP_FEE_NOT_FOUND"
          /\ ledger' = ledger
     ELSE IF ExistingOrder(IF "city_code" \in b.given /\ b.city_code # ""
                             THEN b.city_code ELSE ledger[id].city_code, b, id) THEN
          /\ adminResult' = "DUPLICATE_ORDER"
          /\ ledger' = ledger
     ELSE /\ adminResult' = "updated"
          /\ ledger' = [ledger EXCEPT
               ![id].currency_code =
                  IF "currency_code" \in b.given /\ b.currency_code # ""
                    THEN toUpperCase(b.currency_code) ELSE @,
               ![id].city_code = IF "city_code" \in b.given THEN b.city_code ELSE @,
               ![id].transaction_type =
                  IF "transaction_type" \in b.given THEN b.transaction_type ELSE @,
               ![id].markup_type = IF "markup_type" \in b.given THEN b.markup_type ELSE @,
               ![id].markup_value = IF "markup_value" \in b.given THEN b.markup_value ELSE @,
               ![id].markup_value_sell =
                  IF "markup_value_sell" \in b.given THEN b.markup_value_sell ELSE @,
               ![id].gst_percentage =
                  IF "gst_percentage" \in b.given THEN b.gst_percentage ELSE @,
               ![id].quantity = IF "quantity" \in b.given THEN b.quantity ELSE @,
               ![id].isActive = IF "isActive" \in b.given THEN b.isActive ELSE @,
               ![id].order = IF "order" \in b.given THEN b.order ELSE @]
  /\ UNCHANGED <<orders, orderResult, errors, authVars, stockPc, stockReq, stockCurrent, calls>>
  /\ UNCHANGED procVars
  /\ UNCHANGED readVars

\* MarkupFee.findByPk(id) and markupFee.destroy()
deleteMarkupFee(id) ==
  /\ IF ~ledger[id].exists THEN
          /\ adminResult' = "MARKUP_FEE_NOT_FOUND"
          /\ ledger' = ledger
     ELSE /\ adminResult' = "deleted"
          /\ ledger' = [ledger EXCEPT ![id] = NoRow]
  /\ UNCHANGED <<orders, orderResult, errors, authVars, stockPc, stockReq, stockCurrent,
                 calls>>
  /\ UNCHANGED procVars
  /\ UNCHANGED readVars

\* ------------------------------------------------------- PUT /api/stock/:id
\* updateStock: newQuantity of the switch on operation
StockNewQuantity(current, quantity, operation) ==
  CASE operation = "add" -> current + quantity
    [] operation = "subtract" -> current - quantity
    [] OTHER -> quantity

\* a switch without the two refusals
StockRefused_Never(current, quantity, operation) == FALSE

\* updateStock: the branches that answer 400
StockRefused(current, quantity, operation) ==
  CASE operation = "add" -> FALSE
    [] operation = "subtract" -> current - quantity < 0
    [] OTHER -> quantity < 0

\* MarkupFee.findByPk(id) and the switch
UpdateStockFind(id, quantity, operation) ==
  /\ stockPc = "idle"
  /\ calls < MaxCalls
  /\ calls' = calls + 1
  /\ stockReq' = [id |-> id, quantity |-> quantity, operation |-> operation]
  /\ IF ~ledger[id].exists THEN
          /\ adminResult' = "MARKUP_FEE_NOT_FOUND"
          /\ UNCHANGED <<stockPc, stockCurrent>>
     ELSE IF StockRefused(ledger[id].quantity, quantity, operation) THEN
          /\ adminResult' = "STOCK_REFUSED"
          /\ UNCHANGED <<stockPc, stockCurrent>>
     ELSE /\ adminResult' = ""
          /\ stockCurrent' = ledger[id].quantity
          /\ stockPc' = "update"
  /\ UNCHANGED <<ledger, orders, orderResult, errors, authVars>>
  /\ UNCHANGED procVars
  /\ UNCHANGED readVars

\* markupFee.update({quantity: newQuantity.toFixed(4)})
UpdateStockWrite ==
  /\ stockPc = "update"
  /\ LET id == stockReq.id
         newQuantity == StockNewQuantity(stockCurrent, stockReq.quantity, stockReq.operation)
     IN ledger' = markupFeeUpdate(ledger, id, newQuantity)
  /\ adminResult' = "success"
  /\ stockPc' = "idle"
  /\ UNCHANGED <<orders, orderResult, errors, authVars, stockReq, stockCurrent, calls>>
  /\ UNCHANGED procVars
  /\ UNCHANGED readVars

\* ------------------------------------------------------- /api/currency
\* Rates, markup_value and markup_value_sell are held in ten-thousandths
\* (toFixed(4), DECIMAL(10,4)) and gst_percentage in hundredths (DECIMAL(5,2)).
\* A markup_value_sell of 0 stands for null: the markup-fee endpoints store null
\* for a falsy markup_value_sell, so no row holds 0.  The arithmetic is exact:
\* products are carried in limbs of four decimal digits, least significant
\* first, so that no intermediate exceeds the integer range.
Scale == 10000
Hundredths == 100
Percent == 100

Currencies == {"USD", "EUR"}
RateFields == {"bpc", "btt", "bdd", "bcn", "ncn_combo", "scn", "spc"}

RECURSIVE ToLimbs(_)
ToLimbs(n) == IF n = 0 THEN <<>> ELSE <<n % Scale>> \o ToLimbs(n \div Scale)

RECURSIVE FromLimbs(_)
FromLimbs(X) == IF X = <<>> THEN 0 ELSE Head(X) + Scale * FromLimbs(Tail(X))

\* X * k + carry for one limb k
RECURSIVE TimesLimb(_, _, _)
TimesLimb(X, k, carry) ==
  IF X = <<>> THEN ToLimbs(carry)
  ELSE LET t == Head(X) * k + carry
       IN <<t % Scale>> \o TimesLimb(Tail(X), k, t \div Scale)

RECURSIVE Plus(_, _, _)
Plus(X, Y, carry) ==
  IF X = <<>> /\ Y = <<>> THEN ToLimbs(carry)
  ELSE LET x == IF X = <<>> THEN 0 ELSE Head(X)
           y == IF Y = <<>> THEN 0 ELSE Head(Y)
           t == x + y + carry
       IN <<t % Scale>> \o Plus(IF X = <<>> THEN <<>> ELSE Tail(X),
                                IF Y = <<>> THEN <<>> ELSE Tail(Y), t \div Scale)

\* X * n for an integer n >= 0
RECURSIVE Times(_, _)
Times(X, n) ==
  IF n = 0 THEN <<>>
  ELSE Plus(TimesLimb(X, n % Scale, 0), <<0>> \o Times(X, n \div Scale), 0)

Abs(n) == IF n < 0 THEN 0 - n ELSE n

\* the digits beyond the fourth dropped
toFixed_Truncating(X, k) == FromLimbs(SubSeq(X, k + 1, Len(X)))

\* Number.prototype.toFixed on the magnitude X / Scale^k: the nearest integer,
\* the larger one when two are equally near
toFixed(X, k) ==
  FromLimbs(SubSeq(X, k + 1, Len(X))) +
  (IF Len(X) >= k /\ X[k] >= Scale \div 2 THEN 1 ELSE 0)

\* a value of a rate field
Number(n) == [kind |-> "number", ticks |-> n]
Null == [kind |-> "null", ticks |-> 0]
NaN == [kind |-> "NaN", ticks |-> 0]

\* the markup argument of calculateRate: undefined, the object {} or a row
undefinedFee == [is |-> "undefined", fee |-> NoRow]
emptyObject == [is |-> "{}", fee |-> NoRow]
Fee(row) == [is |-> "fee", fee |-> row]

\* markup_value, always
effectiveMarkupValue_BuyOnly(fee, isSell) == fee.markup_value

\* markupValue: markup_value_sell for a sell when it is neither null nor undefined
effectiveMarkupValue(fee, isSell) ==
  IF isSell /\ fee.markup_value_sell # 0 THEN fee.markup_value_sell
  ELSE fee.markup_value

\* finalRate after the markup as sign and magnitude, in units of
\* 1 / (Scale * Percent) of a ten-thousandth
Adjusted(L, fee, isSell) ==
  LET markupValue == effectiveMarkupValue(fee, isSell) IN
  CASE fee.markup_type = "paisa" ->
         [neg |-> L + markupValue < 0,
          mag |-> Times(ToLimbs(Abs(L + markupValue)), Scale * Percent)]
    [] fee.markup_type = "percentage" ->
         [neg |-> Scale * Percent + markupValue < 0,
          mag |-> Times(ToLimbs(L), Abs(Scale * Percent + markupValue))]
    [] OTHER -> [neg |-> FALSE, mag |-> Times(ToLimbs(L), Scale * Percent)]

\* finalRate += finalRate * gst_percentage / 100, scaled to Scale^3
WithGst(adjusted, fee) ==
  [neg |-> adjusted.neg # (Percent * Hundredths + fee.gst_percentage < 0),
   mag |-> Times(Times(adjusted.mag, Abs(Percent * Hundredths + fee.gst_percentage)),
                 (Scale * Scale) \div (Percent * Percent * Hundredths))]

\* calculateRate(liveRate, markup, isSell): null without a markup; with {} the
\* GST is parseFloat(undefined), so the rate is NaN
calculateRate(liveRate, markup, isSell) ==
  IF markup.is = "undefined" THEN Null
  ELSE IF markup.is = "{}" \/ liveRate.kind # "number" THEN NaN
  ELSE LET final == WithGst(Adjusted(liveRate.ticks, markup.fee, isSell), markup.fee)
           n == toFixed(final.mag, 3)
       IN Number(IF final.neg THEN 0 - n ELSE n)

\* the rates of one currency: a response entry, and a row of currencies
NoRates ==
  [exists |-> FALSE, code |-> "", currency_code |-> "", live_rate |-> Null,
   bpc |-> Null, btt |-> Null, bdd |-> Null, bcn |-> Null, ncn_combo |-> Null,
   scn |-> Null, spc |-> Null]

\* fetchMarkupFees: feeMap[currency][transaction_type] of the active rows of the
\* city; of several rows of one type the last one findAll returns is kept
fetchMarkupFees(led, city_code, currency) ==
  LET kept(t) == LET found == FindActive(led, currency, toUpperCase(city_code), t)
                 IN IF found = {} THEN {0} ELSE found
  IN {[CASH |-> a, CARD |-> b, TT |-> c, SELLCASH |-> d, SELLCARD |-> e] :
        a \in kept("CASH"), b \in kept("CARD"), c \in kept("TT"),
        d \in kept("SELLCASH"), e \in kept("SELLCARD")}

\* the seven rates; absent is what calculateRate gets for a type without a row
currencyData(liveRate, currency, led, sel, absent, code) ==
  LET fee(t) == IF sel[t] = 0 THEN absent ELSE Fee(led[sel[t]]) IN
  [exists |-> TRUE, code |-> code, currency_code |-> currency, live_rate |-> liveRate,
   bpc |-> calculateRate(liveRate, fee("CARD"), FALSE),
   btt |-> calculateRate(liveRate, fee("TT"), FALSE),
   bdd |-> calculateRate(liveRate, fee("TT"), FALSE),
   bcn |-> calculateRate(liveRate, fee("CASH"), FALSE),
   ncn_combo |-> calculateRate(liveRate, fee("CARD"), FALSE),
   scn |-> calculateRate(liveRate, fee("SELLCASH"), TRUE),
   spc |-> calculateRate(liveRate, fee("SELLCARD"), TRUE)]

HasNaN(data) == \E f \in RateFields : data[f].kind = "NaN"

RatesError(code) == [NoRates EXCEPT !.code = code]

\* Currency.upsert of the seven rates.  The columns are DECIMAL(10,4): whether
\* a NaN is stored or refused is the database layer's, so both are outcomes
upsert(currency, data, code) ==
  \/ /\ currencies' = [currencies EXCEPT ![currency] =
                         [data EXCEPT !.code = "", !.live_rate = Null]]
     /\ rates' = [data EXCEPT !.code = code]
  \/ /\ HasNaN(data)
     /\ currencies' = currencies
     /\ rates' = RatesError("error")

\* GET /api/currency/rates for one currency pair
getCurrencyRates(city_code, currency, liveRate) ==
  /\ IF city_code = "" THEN rates' = RatesError("city_code is required")
                            /\ currencies' = currencies
     ELSE \E sel \in fetchMarkupFees(ledger, city_code, currency) :
            upsert(currency,
                   currencyData(Number(liveRate), currency, ledger, sel, emptyObject, ""),
                   "fetched")
  /\ UNCHANGED <<ledger, orders, orderResult, errors, authVars, adminVars, calls, stockValidation>>
  /\ UNCHANGED procVars

\* POST /api/currency/rates/update for one currency pair
updateCurrencyRates(city_code, currency, liveRate) ==
  /\ IF city_code = "" THEN rates' = RatesError("city_code is required")
                            /\ currencies' = currencies
     ELSE \E sel \in fetchMarkupFees(ledger, city_code, currency) :
            upsert(currency,
                   currencyData(Number(liveRate), currency, ledger, sel, emptyObject, ""),
                   "updated")
  /\ UNCHANGED <<ledger, orders, orderResult, errors, authVars, adminVars, calls, stockValidation>>
  /\ UNCHANGED procVars

\* GET /api/currency/rates/detailed: calculateRate gets fees[type] itself
getDetailedCurrencyRates(city_code, currency, liveRate) ==
  /\ IF city_code = "" THEN rates' = RatesError("city_code is required")
     ELSE \E sel \in fetchMarkupFees(ledger, city_code, currency) :
            rates' = currencyData(Number(liveRate), currency, ledger, sel, undefinedFee,
                                  "detailed")
  /\ UNCHANGED <<ledger, orders, orderResult, errors, authVars, adminVars, calls, currencies,
                 stockValidation>>
  /\ UNCHANGED procVars

\* the fallback live rate of a cached currency: the average of its buy rates
\* that are truthy (a DECIMAL is read back as a string, so every stored rate is)
averageRate(cached) ==
  LET buyRates == {f \in {"bpc", "btt", "bdd", "bcn", "ncn_combo"} : cached[f].kind # "null"}
      RECURSIVE Sum(_)
      Sum(fs) == IF fs = {} THEN 0
                 ELSE LET f == CHOOSE g \in fs : TRUE IN cached[f].ticks + Sum(fs \ {f})
      n == Cardinality(buyRates)
      total == Sum(buyRates)
      rounded == (2 * Abs(total) + n) \div (2 * n)
  IN IF \E f \in buyRates : cached[f].kind = "NaN" THEN NaN
     ELSE Number(IF total < 0 THEN 0 - rounded ELSE rounded)

\* GET /api/currency/rates/fallback for one currency pair; live is FALSE when
\* fetchLiveRates throws and the cached rates are used
getCurrencyRatesWithFallback(city_code, currency, live, liveRate) ==
  /\ IF city_code = "" THEN rates' = RatesError("city_code is required")
     ELSE IF ~live /\ (~currencies[currency].exists
                       \/ \A f \in {"bpc", "btt", "bdd", "bcn", "ncn_combo"} :
                            currencies[currency][f].kind = "null")
       THEN rates' = RatesError("database")
     ELSE \E sel \in fetchMarkupFees(ledger, city_code, currency) :
            rates' = currencyData(IF live THEN Number(liveRate)
                                  ELSE averageRate(currencies[currency]),
                                  currency, ledger, sel, emptyObject,
                                  IF live THEN "live" ELSE "database")
  /\ UNCHANGED <<ledger, orders, orderResult, errors, authVars, adminVars, calls, currencies,
                 stockValidation>>
  /\ UNCHANGED procVars

\* ------------------------------------------------- POST /api/stock/validate
NoValidation ==
  [code |-> "", currencyCode |-> "", cityCode |-> "", amount |-> 0, product |-> "",
   ledger |-> InitLedger, availableAmount |-> 0, isAvailable |-> FALSE]

\* validateStock: the response, with the request and the ledger it was read from
validateStock(currencyCode, cityCode, amount, product) ==
  /\ LET asked == [NoValidation EXCEPT !.currencyCode = currencyCode,
                     !.cityCode = cityCode, !.amount = amount, !.product = product,
                     !.ledger = ledger]
         found == FindActive(ledger, toUpperCase(currencyCode), toUpperCase(cityCode),
                             mapProductToTransactionType(product))
     IN IF currencyCode = "" \/ cityCode = "" \/ amount = 0 \/ product = "" THEN
             stockValidation' = [asked EXCEPT !.code = "required"]
        ELSE IF found = {} THEN
             stockValidation' = [asked EXCEPT !.code = "not found"]
        ELSE \E r \in found :
             stockValidation' =
               [asked EXCEPT !.code = "completed",
                             !.availableAmount = ledger[r].quantity,
                             !.isAvailable = ledger[r].quantity >= amount]
  /\ UNCHANGED <<ledger, orders, orderResult, errors, authVars, adminVars, calls, rates,
                 currencies>>
  /\ UNCHANGED procVars

\* ------------------------------------------------------------ /api/auth
\* A refresh token is a uuid; tokens are numbered in the order they are issued.
\* expired: the clock has passed expiresAt
NoToken == [exists |-> FALSE, userId |-> 0, isRevoked |-> FALSE, expired |-> FALSE]

FreeTokens == {t \in Tokens : ~refreshTokens[t].exists}

\* generateRefreshToken: a uuid no row holds
generateRefreshToken == CHOOSE t \in FreeTokens : \A u \in FreeTokens : t <= u

\* RefreshToken.create({token, userId, expiresAt, isRevoked: false, ...})
storeRefreshToken(tab, token, userId) ==
  [tab EXCEPT ![token] = [exists |-> TRUE, userId |-> userId, isRevoked |-> FALSE,
                          expired |-> FALSE]]

\* findOne({token, expiresAt > now, isRevoked: false}): the user of the row, 0
\* when it throws 'Invalid refresh token'
verifyRefreshToken(tab, token) ==
  IF tab[token].exists /\ ~tab[token].expired /\ ~tab[token].isRevoked
    THEN tab[token].userId ELSE 0

\* RefreshToken.update({isRevoked: true}, {where: {token}})
revokeRefreshToken(tab, token) ==
  IF tab[token].exists THEN [tab EXCEPT ![token].isRevoked = TRUE] ELSE tab

\* RefreshToken.update({isRevoked: true}, {where: {userId}})
revokeAllUserTokens(tab, userId) ==
  [t \in Tokens |-> IF tab[t].exists /\ tab[t].userId = userId
                      THEN [tab[t] EXCEPT !.isRevoked = TRUE] ELSE tab[t]]

AuthFrame ==
  /\ UNCHANGED <<ledger, orders, orderResult, errors, adminVars, calls>>
  /\ UNCHANGED procVars
  /\ UNCHANGED readVars

\* a login: generateTokens stores a new refresh token of the user
generateTokens(user) ==
  /\ FreeTokens # {}
  /\ refreshTokens' = storeRefreshToken(refreshTokens, generateRefreshToken, user)
  /\ UNCHANGED <<refreshPc, refreshReq, refreshUser, authResult, refreshed>>
  /\ AuthFrame

\* refreshTokens: const user = await tokenService.verifyRefreshToken(refreshToken)
RefreshVerify(p, token) ==
  /\ refreshPc[p] = "idle"
  /\ refreshReq' = [refreshReq EXCEPT ![p] = token]
  /\ LET user == verifyRefreshToken(refreshTokens, token) IN
     /\ refreshUser' = [refreshUser EXCEPT ![p] = user]
     /\ IF user = 0
          THEN /\ authResult' = [authResult EXCEPT ![p] = "Invalid refresh token"]
               /\ refreshPc' = refreshPc
          ELSE /\ authResult' = [authResult EXCEPT ![p] = ""]
               /\ refreshPc' = [refreshPc EXCEPT ![p] = "revoke"]
  /\ UNCHANGED <<refreshTokens, refreshed>>
  /\ AuthFrame

\* refreshTokens: await tokenService.revokeRefreshToken(refreshToken)
RefreshRevoke(p) ==
  /\ refreshPc[p] = "revoke"
  /\ refreshTokens' = revokeRefreshToken(refreshTokens, refreshReq[p])
  /\ refreshPc' = [refreshPc EXCEPT ![p] = "generate"]
  /\ UNCHANGED <<refreshReq, refreshUser, authResult, refreshed>>
  /\ AuthFrame

\* refreshTokens: await tokenService.generateTokens(user, ...) and the return
RefreshGenerate(p) ==
  /\ refreshPc[p] = "generate"
  /\ FreeTokens # {}
  /\ refreshTokens' = storeRefreshToken(refreshTokens, generateRefreshToken, refreshUser[p])
  /\ authResult' = [authResult EXCEPT ![p] = "refreshed"]
  /\ refreshed' = [refreshed EXCEPT ![refreshReq[p]] = @ + 1]
  /\ refreshPc' = [refreshPc EXCEPT ![p] = "idle"]
  /\ UNCHANGED <<refreshReq, refreshUser>>
  /\ AuthFrame

refreshTokensCall(p) ==
  \/ RefreshRevoke(p)
  \/ RefreshGenerate(p)

logout(token) ==
  /\ refreshTokens' = revokeRefreshToken(refreshTokens, token)
  /\ UNCHANGED <<refreshPc, refreshReq, refreshUser, authResult, refreshed>>
  /\ AuthFrame

logoutAllDevices(userId) ==
  /\ refreshTokens' = revokeAllUserTokens(refreshTokens, userId)
  /\ UNCHANGED <<refreshPc, refreshReq, refreshUser, authResult, refreshed>>
  /\ AuthFrame

\* the clock passes the expiresAt of a token
Expire(token) ==
  /\ refreshTokens[token].exists
  /\ ~refreshTokens[token].expired
  /\ refreshTokens' = [refreshTokens EXCEPT ![token].expired = TRUE]
  /\ UNCHANGED <<refreshPc, refreshReq, refreshUser, authResult, refreshed>>
  /\ AuthFrame

\* ------------------------------------------------------------ initial state
Init ==
  /\ ledger = InitLedger
  /\ orders = [o \in OrderIds |-> NoOrder]
  /\ orderResult = ""
  /\ pc = [p \in Procs |-> "idle"]
  /\ req = [p \in Procs |-> NoRequest]
  /\ forexRequest = [p \in Procs |-> NoOrder]
  /\ idx = [p \in Procs |-> 1]
  /\ markupFee = [p \in Procs |-> 0]
  /\ currentQuantity = [p \in Procs |-> 0]
  /\ deductionResults = [p \in Procs |-> <<>>]
  /\ response = [p \in Procs |-> ""]
  /\ adminResult = ""
  /\ stockPc = "idle"
  /\ stockReq = [id |-> 0, quantity |-> 0, operation |-> ""]
  /\ stockCurrent = 0
  /\ calls = 0
  /\ successes = [o \in OrderIds |-> 0]
  /\ startQty = [p \in Procs |-> [r \in RowIds |-> 0]]
  /\ missing = [p \in Procs |-> {}]
  /\ rates = NoRates
  /\ currencies = [c \in Currencies |-> NoRates]
  /\ stockValidation = NoValidation
  /\ errors = {}
  /\ refreshTokens = [t \in Tokens |-> NoToken]
  /\ refreshPc = [p \in Procs |-> "idle"]
  /\ refreshReq = [p \in Procs |-> 0]
  /\ refreshUser = [p \in Procs |-> 0]
  /\ authResult = [p \in Procs |-> ""]
  /\ refreshed = [t \in Tokens |-> 0]

\* ------------------------------------------------------------ request bodies
LeisureDocs == documentRequirements("Leisure/Holiday/Personal Visit")

BuyLines(od) ==
  Payload("Buy", TRUE, od, "", "", 0, "Leisure/Holiday/Personal Visit", LeisureDocs, {})

BuyLegacy(prod, amt) ==
  Payload("Buy", FALSE, <<>>, "USD", prod, amt, "Leisure/Holiday/Personal Visit",
          LeisureDocs, {})

SellLines(od) == Payload("Sell", TRUE, od, "", "", 0, "", SellDocs, {})

SellLegacy(prod, amt) == Payload("Sell", FALSE, <<>>, "USD", prod, amt, "", SellDocs, {})

\* orders of the pipeline: one Buy line, two Buy lines on one row, a Buy order
\* in the single-line format, one Sell line, and a single-line body with an
\* empty orderDetails and a negative amount (the route validates the amount of
\* the single-line format only when the orderDetails key is absent)
PipelineBodies ==
  { BuyLines(<<Line("Buy", "USD", "Cash", 60)>>),
    BuyLines(<<Line("Buy", "USD", "Cash", 60), Line("Buy", "USD", "Cash", 60)>>),
    BuyLegacy("Cash", 60),
    SellLines(<<Line("Sell", "USD", "Sell Cash", 50)>>),
    Payload("Buy", TRUE, <<>>, "USD", "Cash", -70, "Leisure/Holiday/Personal Visit",
            LeisureDocs, {}) }

StatusInputs ==
  { <<"Approved", "">>, <<"Rejected", "">>, <<"Rejected", "kyc mismatch">>,
    <<"Documents Requested", "">>, <<"Pending", "">> }

\* single-line Buy orders on the CASH row (quantity 100)
RaceBodies ==
  { BuyLines(<<Line("Buy", "USD", "Cash", 60)>>),
    BuyLines(<<Line("Buy", "USD", "Cash", 40)>>) }

\* orders with the documents of their purpose
DocBodies ==
  { BuyLines(<<Line("Buy", "USD", "Cash", 60)>>),
    Payload("Buy", TRUE, <<Line("Buy", "USD", "Cash", 60)>>, "", "", 0, "Business Visit",
            documentRequirements("Business Visit"), businessFields),
    SellLines(<<Line("Sell", "USD", "Sell Cash", 50)>>),
    [BuyLines(<<Line("Buy", "USD", "Cash", 60)>>) EXCEPT !.docs = {"panCardImage"}] }

UpdateBodies ==
  { UpdateBody("Approved", "", {}, "absent"),
    UpdateBody("", "", {"airTicket"}, "absent"),
    UpdateBody("", "", {"businessName"}, "absent"),
    UpdateBody("", "Education", {}, "absent") }

\* bodies of the intake: within and beyond the stock, with and without a row,
\* in both formats, and one that carries the columns of the status
IntakeBodies ==
  { BuyLines(<<Line("Buy", "USD", "Forex Card", 1000)>>),
    BuyLines(<<Line("Buy", "USD", "Forex Card", 500)>>),
    BuyLegacy("Wire Transfer", 60),
    BuyLegacy("Cash", 60),
    SellLines(<<Line("Sell", "USD", "Sell Cash", 1000)>>),
    SellLines(<<Line("Sell", "USD", "Sell Cash", 50)>>),
    SellLegacy("Sell Cash", 1000),
    [BuyLines(<<Line("Buy", "USD", "Cash", 60)>>) EXCEPT
       !.status = "Approved", !.stockDeducted = "true"] }

\* bodies of the form: a Sell order in the single-line format with a Buy
\* product, Sell orders with lines (a Sell product, a Buy product, one without
\* the PAN card), a single-line body with an empty orderDetails and a negative
\* amount, a single-line body without amounts, a Buy order with a negative
\* line amount and without the air ticket, and a Buy order in order
FormBodies ==
  { SellLegacy("Cash", 50),
    SellLines(<<Line("Sell", "USD", "Sell Cash", 50)>>),
    SellLines(<<Line("Sell", "USD", "Cash", 50)>>),
    [SellLines(<<Line("Sell", "USD", "Cash", 50)>>) EXCEPT !.docs = SellDocs \ {"panCardImage"}],
    Payload("Buy", TRUE, <<>>, "USD", "Cash", -70, "Leisure/Holiday/Personal Visit",
            LeisureDocs, {}),
    BuyLegacy("Cash", 0),
    [BuyLines(<<Line("Buy", "USD", "Cash", -5)>>) EXCEPT !.docs = LeisureDocs \ {"airTicket"}],
    BuyLines(<<Line("Buy", "USD", "Cash", 60)>>) }

AllFeeKeys == CreateKeys \cup {"quantity"}

\* a new fee with a negative quantity, a fee that exists, a body without markup_type
FeeBodies ==
  { FeeBody(AllFeeKeys, "EUR", "CASH", "paisa", -5, TRUE, 0),
    FeeBody(AllFeeKeys, "USD", "CASH", "paisa", 50, TRUE, 0),
    FeeBody(CreateKeys \ {"markup_type"}, "EUR", "CARD", "paisa", 0, TRUE, 0) }

FeeLists ==
  { <<FeeBody(AllFeeKeys, "EUR", "CARD", "paisa", 10, TRUE, 0),
      FeeBody(CreateKeys, "EUR", "TT", "paisa", 0, TRUE, 0)>> }

FeeUpdates ==
  { FeeBody({"quantity"}, "", "", "", -5, TRUE, 0),
    FeeBody({"isActive"}, "", "", "", 0, FALSE, 0) }

StockInputs == {-150, 50} \X {"add", "subtract", "set"}

\* a percentage fee on the triple of row 1, a fee on a new triple
IdentityBodies ==
  { FeeBody(AllFeeKeys, "USD", "CASH", "percentage", 50, TRUE, 0),
    FeeBody(AllFeeKeys, "EUR", "CASH", "paisa", 10, TRUE, 0) }

\* a list that holds one fee twice
IdentityLists ==
  { <<FeeBody(AllFeeKeys, "EUR", "CARD", "paisa", 10, TRUE, 0),
      FeeBody(AllFeeKeys, "EUR", "CARD", "paisa", 10, TRUE, 0)>> }

\* a change of the markup_type, a deactivation
IdentityUpdates ==
  { FeeBody({"markup_type"}, "", "", "percentage", 0, TRUE, 0),
    FeeBody({"isActive"}, "", "", "", 0, FALSE, 0) }

\* a fee body that carries every numeric field
RateFee(cur, tt, mtype, markup_value, markup_value_sell, gst_percentage, qty) ==
  [FeeBody(AllFeeKeys \cup {"markup_value_sell", "gst_percentage"}, cur, tt, mtype,
           qty, TRUE, 0)
     EXCEPT !.markup_value = markup_value, !.markup_value_sell = markup_value_sell,
            !.gst_percentage = gst_percentage]

\* 2.5 % with 18 % GST; a fixed markup with a sell value; a markup of -150 %
\* on the triple of row 1
RateFeeBodies ==
  { RateFee("EUR", "CASH", "percentage", 25000, 0, 1800, 0),
    RateFee("EUR", "SELLCASH", "paisa", 10000, 5000, 1800, 0),
    RateFee("USD", "CASH", "percentage", -1500000, 0, 1800, 0) }

\* live rates of the feed: 80.0000 and 82.1234
LiveRates == {800000, 821234}

GstValues == {0, 1800}

CityCodes == {"del", ""}

\* a second active row for (USD, DEL, CASH), with less stock than row 1
ReadFeeBodies == { RateFee("USD", "CASH", "percentage", 25000, 0, 1800, 50) }

ValidateInputs ==
  { <<"usd", "DEL", 60, "Cash">>, <<"USD", "DEL", 60, "Wire Transfer">>,
    <<"USD", "", 60, "Cash">> }

\* --------------------------------------------------------- specifications
AllIdle == \A p \in Procs : Idle(p)

\* the request is served by the first free handler (handlers are interchangeable)
FirstIdle(p) == Idle(p) /\ \A q \in Procs : q < p => ~Idle(q)

\* the order pipeline with two requests in flight
Next ==
  \/ \E b \in PipelineBodies : createForexRequest(b)
  \/ \E p \in Procs, id \in OrderIds, s \in StatusInputs :
       FirstIdle(p) /\ BeginUpdateStatus(p, id, s[1], s[2])
  \/ \E p \in Procs : updateStatus(p)

Spec == Init /\ [][Next]_vars

\* the order pipeline, one request after the other
NextSeq ==
  \/ \E b \in PipelineBodies : createForexRequest(b)
  \/ \E id \in OrderIds, s \in StatusInputs :
       AllIdle /\ BeginUpdateStatus(1, id, s[1], s[2])
  \/ updateStatus(1)

SpecSeq == Init /\ [][NextSeq]_vars

\* concurrent approvals of distinct Pending single-line Buy orders
NextRace ==
  \/ \E b \in RaceBodies : createForexRequest(b)
  \/ \E p \in Procs, id \in OrderIds :
       /\ FirstIdle(p)
       /\ orders[id].exists /\ orders[id].status = "Pending"
       /\ \A q \in Procs : ~Idle(q) => req[q].id # id
       /\ BeginUpdateStatus(p, id, "Approved", "")
  \/ \E p \in Procs : approve(p)

SpecRace == Init /\ [][NextRace]_vars

\* creation, the status endpoint and the generic update of an order
NextDocs ==
  \/ \E b \in DocBodies : createForexRequest(b)
  \/ \E id \in OrderIds, b \in UpdateBodies : updateForexRequest(id, b)
  \/ \E id \in OrderIds, s \in {<<"Approved", "">>, <<"Documents Requested", "">>} :
       AllIdle /\ BeginUpdateStatus(1, id, s[1], s[2])
  \/ updateStatus(1)

SpecDocs == Init /\ [][NextDocs]_vars

\* the intake, with approvals moving the stock it is checked against
NextIntake ==
  \/ \E b \in IntakeBodies : createForexRequest(b)
  \/ \E id \in OrderIds : AllIdle /\ BeginUpdateStatus(1, id, "Approved", "")
  \/ approve(1)

SpecIntake == Init /\ [][NextIntake]_vars

\* the admin endpoints of the ledger, and approvals
NextLedger ==
  \/ \E b \in FeeBodies : createMarkupFee(b)
  \/ \E fees \in FeeLists : bulkCreateMarkupFees(fees)
  \/ \E b \in FeeUpdates : updateMarkupFee(1, b)
  \/ \E id \in {1, MaxRows}, s \in StockInputs : UpdateStockFind(id, s[1], s[2])
  \/ UpdateStockWrite
  \/ createForexRequest(BuyLines(<<Line("Buy", "USD", "Cash", 60)>>))
  \/ \E id \in OrderIds : AllIdle /\ BeginUpdateStatus(1, id, "Approved", "")
  \/ approve(1)

SpecLedger == Init /\ [][NextLedger]_vars

\* the rate endpoints over the markups the admin endpoint stores
NextRates ==
  \/ \E b \in RateFeeBodies : createMarkupFee(b)
  \/ \E city \in CityCodes, c \in Currencies, L \in LiveRates :
       getCurrencyRates(city, c, L)
  \/ \E city \in CityCodes, c \in Currencies, L \in LiveRates :
       updateCurrencyRates(city, c, L)
  \/ \E city \in CityCodes, c \in Currencies, L \in LiveRates :
       getDetailedCurrencyRates(city, c, L)
  \/ \E city \in CityCodes, c \in Currencies, L \in LiveRates, live \in BOOLEAN :
       getCurrencyRatesWithFallback(city, c, live, L)

SpecRates == Init /\ [][NextRates]_vars

\* the read paths: stock validation, the intake and the rate endpoints
NextReads ==
  \/ \E b \in ReadFeeBodies : createMarkupFee(b)
  \/ \E v \in ValidateInputs : validateStock(v[1], v[2], v[3], v[4])
  \/ \E b \in {BuyLines(<<Line("Buy", "USD", "Cash", 60)>>),
                BuyLines(<<Line("Buy", "USD", "Forex Card", 1000)>>)} :
       createForexRequest(b)
  \/ \E city \in CityCodes : getCurrencyRates(city, "USD", 821234)
  \/ \E city \in CityCodes : updateCurrencyRates(city, "USD", 800000)
  \/ \E city \in CityCodes : getDetailedCurrencyRates(city, "USD", 821234)
  \/ \E city \in CityCodes, live \in BOOLEAN :
       getCurrencyRatesWithFallback(city, "USD", live, 821234)

SpecReads == Init /\ [][NextReads]_vars

\* the admin stock adjustment and approvals, one request after the other
NextStock ==
  \/ \E id \in {1, MaxRows}, s \in StockInputs :
       AllIdle /\ UpdateStockFind(id, s[1], s[2])
  \/ UpdateStockWrite
  \/ createForexRequest(BuyLines(<<Line("Buy", "USD", "Cash", 60)>>))
  \/ \E id \in OrderIds :
       AllIdle /\ stockPc = "idle" /\ BeginUpdateStatus(1, id, "Approved", "")
  \/ approve(1)

SpecStock == Init /\ [][NextStock]_vars

\* the admin stock adjustment while an approval is in flight
NextAdjust ==
  \/ \E op \in {"add", "subtract"} : UpdateStockFind(1, 50, op)
  \/ UpdateStockWrite
  \/ createForexRequest(BuyLines(<<Line("Buy", "USD", "Cash", 60)>>))
  \/ \E id \in OrderIds :
       /\ AllIdle
       /\ orders[id].exists /\ orders[id].status = "Pending"
       /\ BeginUpdateStatus(1, id, "Approved", "")
  \/ approve(1)

SpecAdjust == Init /\ [][NextAdjust]_vars

\* the admin endpoints that insert, change and delete ledger rows
NextIdentity ==
  \/ \E b \in IdentityBodies : createMarkupFee(b)
  \/ \E fees \in IdentityLists : bulkCreateMarkupFees(fees)
  \/ \E id \in {1, MaxRows}, b \in IdentityUpdates : updateMarkupFee(id, b)
  \/ \E id \in {2, MaxRows} : deleteMarkupFee(id)

SpecIdentity == Init /\ [][NextIdentity]_vars

\* the form of the intake, and the status endpoint on the orders it creates
NextForm ==
  \/ \E b \in FormBodies : createForexRequest(b)
  \/ \E id \in OrderIds, s \in StatusInputs :
       AllIdle /\ BeginUpdateStatus(1, id, s[1], s[2])
  \/ updateStatus(1)

SpecForm == Init /\ [][NextForm]_vars

\* logins, refreshes by two callers, logouts and expiry
NextAuth ==
  \/ \E u \in Users : generateTokens(u)
  \/ \E p \in Procs, t \in Tokens : RefreshVerify(p, t)
  \/ \E p \in Procs : refreshTokensCall(p)
  \/ \E t \in Tokens : logout(t)
  \/ \E u \in Users : logoutAllDevices(u)
  \/ \E t \in Tokens : Expire(t)

SpecAuth == Init /\ [][NextAuth]_vars

\* ----------------------------------------------------------------- properties
\* the lines of an order as the specification sees them: the legacy single
\* line has the direction of the order
OrderLines(fr) ==
  IF Len(fr.orderDetails) > 0 THEN fr.orderDetails
  ELSE <<[orderType |-> fr.orderType, currency |-> fr.currency, product |-> fr.product,
          currencyAmount |-> fr.currencyAmount, amountInINR |-> fr.amountInINR]>>

SignedAmount(line) ==
  IF line.orderType = "Buy" THEN 0 - line.currencyAmount ELSE line.currencyAmount

ResolvesTo(line, city, r) ==
  r \in FindActive(ledger, toUpperCase(line.currency), toUpperCase(city),
                   mapProductToTransactionType(line.product))

\* change of row r by the first n lines of an order
RECURSIVE EffectUpTo(_, _, _)
EffectUpTo(fr, r, n) ==
  IF n = 0 THEN 0
  ELSE EffectUpTo(fr, r, n - 1) +
       (IF ResolvesTo(OrderLines(fr)[n], fr.city, r)
          THEN SignedAmount(OrderLines(fr)[n]) ELSE 0)

Effect(fr, r) == EffectUpTo(fr, r, Len(OrderLines(fr)))

ApprovalDone(p, code) ==
  pc[p] = "done" /\ req[p].status = "Approved" /\ response[p] = code

QuantitiesAsAtStart(p) == \A r \in RowIds : ledger[r].quantity = startQty[p][r]

\* C1: an approval that fails in the deduction leaves every ledger quantity and
\* the order's status and stock_deducted as they were before the call
AllOrNothing ==
  \A p \in Procs :
    ApprovalDone(p, "STOCK_DEDUCTION_ERROR") =>
      /\ QuantitiesAsAtStart(p)
      /\ orders[req[p].id].status = forexRequest[p].status
      /\ orders[req[p].id].stockDeducted = forexRequest[p].stockDeducted

\* C2: the lines of an order are applied once: at most one approval of an order
\* reports success, and an approval of an order whose stock is already
\* deducted leaves the ledger as it found it
NoDoubleDeduction ==
  /\ \A o \in OrderIds : successes[o] <= 1
  /\ \A p \in Procs :
       pc[p] = "done" /\ req[p].status = "Approved" /\ forexRequest[p].stockDeducted
         => QuantitiesAsAtStart(p)

RECURSIVE SuccessfulEffect(_, _)
SuccessfulEffect(r, n) ==
  IF n = 0 THEN 0
  ELSE SuccessfulEffect(r, n - 1) + successes[n] * Effect(orders[n], r)

\* C3: when the concurrent approvals have ended, every quantity is the initial
\* one minus the amounts of the approvals that reported success
NoLostUpdate ==
  AllIdle =>
    \A r \in RowIds :
      ledger[r].quantity = InitLedger[r].quantity + SuccessfulEffect(r, MaxOrders)

DirectionOfEffect ==
  \A p \in Procs :
    ApprovalDone(p, "success") =>
      LET fr == forexRequest[p] IN
      /\ \A r \in RowIds : ledger[r].quantity = startQty[p][r] + Effect(fr, r)
      /\ \A k \in 1..Len(deductionResults[p]) :
           LET d == deductionResults[p][k] IN
           /\ d.previousQuantity = startQty[p][d.row] + EffectUpTo(fr, d.row, k - 1)
           /\ d.newQuantity = startQty[p][d.row] + EffectUpTo(fr, d.row, k)

Terminal(o) == orders[o].exists /\ orders[o].status \in {"Approved", "Rejected"}

\* C6: once an order is Approved or Rejected no request changes it, and a status
\* request that finds it so fails and leaves the ledger alone
TerminalStatus ==
  [][/\ \A o \in OrderIds : Terminal(o) => orders'[o] = orders[o]
     /\ \A p \in Procs :
          ~Idle(p) /\ forexRequest[p].status \in {"Approved", "Rejected"}
            => ledger' = ledger /\ response'[p] # "success"]_vars

RequiredDocuments(fr) ==
  IF fr.orderType = "Sell" THEN SellDocs ELSE documentRequirements(fr.purpose)

\* C7: every Approved order has the documents its purpose requires and, for a
\* Business Visit, the three business fields
DocumentGate ==
  \A o \in OrderIds :
    orders[o].exists /\ orders[o].status = "Approved" =>
      /\ RequiredDocuments(orders[o]) \subseteq orders[o].docs
      /\ orders[o].purpose = "Business Visit" => businessFields \subseteq orders[o].business

Created(o) == ~orders[o].exists /\ orders'[o].exists

\* C8: an order is persisted only if every one of its lines, in either format
\* and for Buy and Sell alike, finds an active row with quantity >= its amount
StockGateAtCreation ==
  [][\A o \in OrderIds :
       Created(o) =>
         \A i \in 1..Len(OrderLines(orders'[o])) :
           LET line == OrderLines(orders'[o])[i] IN
           \E r \in RowIds : /\ ResolvesTo(line, orders'[o].city, r)
                             /\ ledger[r].quantity >= line.currencyAmount]_vars

\* C9: whatever the body carries, a created order is Pending with
\* stock_deducted false
CreatedPending ==
  [][\A o \in OrderIds :
       Created(o) => orders'[o].status = "Pending" /\ ~orders'[o].stockDeducted]_vars

\* C10: no admin endpoint and no approval makes a ledger quantity negative
LedgerNeverNegative ==
  \A r \in RowIds : ledger[r].exists => ~(ledger[r].quantity < 0)

\* C11: approving an order in the single-line format ends as approving the
\* order whose orderDetails is that one line {orderType, currency, product,
\* currencyAmount}: the same success or failure and the same ledger change, so
\* a Buy order decreases the resolved row by currencyAmount
LegacyEquivalence ==
  \A p \in Procs :
    ( /\ pc[p] = "done" /\ req[p].status = "Approved"
      /\ response[p] \in {"success", "STOCK_DEDUCTION_ERROR"}
      /\ Len(forexRequest[p].orderDetails) = 0 ) =>
      LET fr == forexRequest[p]
          line == OrderLines(fr)[1]
          found == FindActive(ledger, toUpperCase(line.currency), toUpperCase(fr.city),
                              mapProductToTransactionType(line.product))
      IN IF found = {}
           THEN response[p] = "STOCK_DEDUCTION_ERROR" /\ QuantitiesAsAtStart(p)
         ELSE \E r \in found :
                LET newQuantity == NewQuantity(startQty[p][r], line) IN
                IF InsufficientForDeduction(newQuantity)
                  THEN response[p] = "STOCK_DEDUCTION_ERROR" /\ QuantitiesAsAtStart(p)
                ELSE /\ response[p] = "success"
                     /\ \A q \in RowIds :
                          ledger[q].quantity = IF q = r THEN newQuantity
                                               ELSE startQty[p][q]

\* C12: an approval refused for a missing document or, for a Business Visit, a
\* missing business field answers with exactly the missing fields, documents
\* before business fields, ends without a step on the ledger and leaves the
\* order and the ledger as they were
BlockedApproval ==
  [][\A id \in OrderIds :
       LET fr == orders[id]
           docs == documentRequirements(fr.purpose) \ fr.docs
           business == IF fr.purpose = "Business Visit"
                         THEN businessFields \ fr.business ELSE {}
       IN ( /\ calls' = calls + 1
            /\ req'[1].id = id /\ req'[1].status = "Approved"
            /\ fr.exists
            /\ docs # {} \/ business # {} ) =>
            /\ pc'[1] = "done"
            /\ response'[1] = IF docs # {} THEN "MISSING_APPROVAL_DOCUMENTS"
                              ELSE "MISSING_BUSINESS_FIELDS"
            /\ missing'[1] = IF docs # {} THEN docs ELSE business
            /\ orders' = orders
            /\ ledger' = ledger]_vars

\* an approval refused for a document although a business field is missing too
BlockedApprovalWitness ==
  /\ pc[1] = "done" /\ req[1].status = "Approved"
  /\ response[1] = "MISSING_APPROVAL_DOCUMENTS"
  /\ forexRequest[1].purpose = "Business Visit"
  /\ ~(businessFields \subseteq forexRequest[1].business)
  /\ orders[req[1].id].status = "Pending"

\* C13: an order has a non-empty rejection_reason exactly when its status is
\* Rejected
RejectionReasonIffRejected ==
  \A o \in OrderIds :
    orders[o].exists => (orders[o].rejectionReason # "" <=> orders[o].status = "Rejected")

\* a step of handler p: the start of its request or a move of its position
StepOf(p) == (calls' = calls + 1 /\ FirstIdle(p)) \/ pc'[p] # pc[p]

\* C14: no step of a request with target Rejected or Documents Requested,
\* successful or not, changes a ledger row or an order's stock_deducted
NoStockEffectOfRejection ==
  [][\A p \in Procs :
       StepOf(p) /\ req'[p].status \in {"Rejected", "Documents Requested"} =>
         /\ ledger' = ledger
         /\ \A o \in OrderIds : orders'[o].stockDeducted = orders[o].stockDeducted]_vars

\* an order rejected after stock had been deducted
NoStockEffectWitness ==
  \E p \in Procs :
    /\ pc[p] = "done" /\ req[p].status = "Rejected" /\ response[p] = "success"
    /\ orders[req[p].id].status = "Rejected"
    /\ ledger # InitLedger

\* C15: the order pipeline changes the ledger only in an approval, and there
\* only the quantity of a row that a line of the order resolves to: every other
\* field and every other row stays, no row appears or disappears
ApprovalFrame ==
  [][\A r \in RowIds :
       ledger'[r] # ledger[r] =>
         /\ ledger[r].exists
         /\ ledger'[r] = [ledger[r] EXCEPT !.quantity = ledger'[r].quantity]
         /\ \E p \in Procs :
              /\ pc[p] = "update" /\ req[p].status = "Approved"
              /\ \E i \in 1..Len(OrderLines(forexRequest[p])) :
                   ResolvesTo(OrderLines(forexRequest[p])[i], forexRequest[p].city, r)]_vars

\* a successful approval of a Sell order has changed the quantity of its row
ApprovalFrameWitness ==
  \E p \in Procs :
    /\ ApprovalDone(p, "success")
    /\ Len(forexRequest[p].orderDetails) = 1
    /\ forexRequest[p].orderType = "Sell"
    /\ ledger[2].quantity # InitLedger[2].quantity

\* C16: the read paths (stock validation, the intake, the four rate endpoints)
\* leave every ledger row as it is, and a stock validation repeated on an
\* unchanged ledger returns what it returned before
ReadPathsPure ==
  [][/\ ( \/ rates' # rates \/ currencies' # currencies
          \/ stockValidation' # stockValidation
          \/ orders' # orders \/ orderResult' # orderResult ) => ledger' = ledger
     /\ ( /\ stockValidation.code # ""
          /\ stockValidation'.currencyCode = stockValidation.currencyCode
          /\ stockValidation'.cityCode = stockValidation.cityCode
          /\ stockValidation'.amount = stockValidation.amount
          /\ stockValidation'.product = stockValidation.product
          /\ stockValidation'.ledger = stockValidation.ledger ) =>
          stockValidation' = stockValidation]_vars

\* -1, 0 or 1 as X is below, equal to or above Y
RECURSIVE Cmp(_, _)
Cmp(X, Y) ==
  IF X = <<>> /\ Y = <<>> THEN 0
  ELSE LET x == IF X = <<>> THEN 0 ELSE Head(X)
           y == IF Y = <<>> THEN 0 ELSE Head(Y)
           c == Cmp(IF X = <<>> THEN <<>> ELSE Tail(X), IF Y = <<>> THEN <<>> ELSE Tail(Y))
       IN IF c # 0 THEN c ELSE IF x < y THEN 0 - 1 ELSE IF x > y THEN 1 ELSE 0

\* adjusted + adjusted * gst_percentage / 100 as a fraction of ten-thousandths,
\* with adjusted = liveRate + effectiveMarkupValue for a fixed markup and
\* liveRate + liveRate * effectiveMarkupValue / 100 for a percentage
ExactQuote(L, row, isSell) ==
  LET effective == IF isSell /\ row.markup_value_sell # 0 THEN row.markup_value_sell
                   ELSE row.markup_value
      gst == 10000 + row.gst_percentage
  IN IF row.markup_type = "paisa"
       THEN [neg |-> (L + effective < 0) # (gst < 0),
             num |-> Times(ToLimbs(Abs(L + effective)), Abs(gst)),
             den |-> ToLimbs(10000)]
     ELSE [neg |-> (1000000 + effective < 0) # (gst < 0),
           num |-> Times(Times(ToLimbs(L), Abs(1000000 + effective)), Abs(gst)),
           den |-> Times(ToLimbs(1000000), 10000)]

\* q is the fraction rounded to a whole number of ten-thousandths
IsRound4(q, exact) ==
  LET twiceQ == Times(Times(exact.den, Abs(q.ticks)), 2)
      twiceN == Times(exact.num, 2)
  IN /\ q.kind = "number"
     /\ q.ticks < 0 => exact.neg
     /\ q.ticks > 0 => ~exact.neg
     /\ Cmp(twiceN, Plus(twiceQ, exact.den, 0)) <= 0
     /\ Cmp(twiceQ, Plus(twiceN, exact.den, 0)) <= 0

\* C17: for every live rate and every markup record, the quote is
\* round4(adjusted + adjusted * gst_percentage / 100) with the effective markup
\* value markup_value_sell for a sell when present and markup_value otherwise
RateFormula ==
  \A r \in RowIds :
    ledger[r].exists =>
      \A L \in LiveRates, isSell \in BOOLEAN :
        IsRound4(calculateRate(Number(L), Fee(ledger[r]), isSell),
                 ExactQuote(L, ledger[r], isSell))

\* rates were quoted from a row with a sell value and from a percentage row
RateFormulaWitness ==
  /\ rates.exists /\ rates.currency_code = "EUR"
  /\ rates.scn.kind = "number" /\ rates.bcn.kind = "number"
  /\ \E r \in RowIds : ledger[r].exists /\ ledger[r].markup_value_sell # 0
  /\ \E r \in RowIds : ledger[r].exists /\ ledger[r].markup_type = "percentage"

Designated(f) ==
  CASE f \in {"bpc", "ncn_combo"} -> "CARD"
    [] f \in {"btt", "bdd"} -> "TT"
    [] f = "bcn" -> "CASH"
    [] f = "scn" -> "SELLCASH"
    [] OTHER -> "SELLCARD"

\* C18: every rate field of getCurrencyRates is the quote from the active row
\* of its designated transaction type (sell for scn and spc), and null, without
\* an error, when no such row exists
QuoteFields ==
  [][(rates' # rates /\ rates'.code \in {"fetched", "error"}) =>
       /\ rates'.code = "fetched"
       /\ \A f \in RateFields :
            LET found == FindActive(ledger, rates'.currency_code, "DEL", Designated(f))
            IN IF found = {} THEN rates'[f] = Null
               ELSE \E r \in found :
                      rates'[f] = calculateRate(rates'.live_rate, Fee(ledger[r]),
                                                f \in {"scn", "spc"})]_vars

\* C19: for every markup record the ledger holds the quote does not decrease
\* when the live rate grows, nor when gst_percentage grows
RateMonotone ==
  \A r \in RowIds :
    ledger[r].exists =>
      \A isSell \in BOOLEAN :
        /\ \A L1 \in LiveRates, L2 \in LiveRates :
             L1 < L2 =>
               calculateRate(Number(L1), Fee(ledger[r]), isSell).ticks
                 <= calculateRate(Number(L2), Fee(ledger[r]), isSell).ticks
        /\ \A L \in LiveRates, g1 \in GstValues, g2 \in GstValues :
             g1 < g2 =>
               calculateRate(Number(L), Fee([ledger[r] EXCEPT !.gst_percentage = g1]),
                             isSell).ticks
                 <= calculateRate(Number(L), Fee([ledger[r] EXCEPT !.gst_percentage = g2]),
                                  isSell).ticks

\* a markup of 2.5 % with 18 % GST
ReferenceMarkup(row) ==
  /\ row.exists
  /\ row.markup_type = "percentage"
  /\ row.markup_value = 25000
  /\ row.gst_percentage = 1800

\* C20, as stated: the quote of 82.1234 with 2.5 % and 18 % GST is 99.3313
ReferenceQuoteAsStated ==
  \A r \in RowIds :
    ReferenceMarkup(ledger[r]) =>
      calculateRate(Number(821234), Fee(ledger[r]), FALSE) = Number(993313)

\* C20: the quote of 82.1234 with 2.5 % and 18 % GST is 99.3283, which is
\* 82.1234 + 82.1234 * 0.025 + (82.1234 * 1.025) * 0.18 = 99.3282523 rounded to
\* four places
ReferenceQuote ==
  \A r \in RowIds :
    ReferenceMarkup(ledger[r]) =>
      /\ calculateRate(Number(821234), Fee(ledger[r]), FALSE) = Number(993283)
      /\ IsRound4(Number(993283), ExactQuote(821234, ledger[r], FALSE))

\* getCurrencyRates has quoted 82.1234 from the 2.5 % row
ReferenceQuoteWitness ==
  /\ rates.code = "fetched" /\ rates.currency_code = "EUR"
  /\ rates.live_rate = Number(821234)
  /\ rates.bcn = Number(993283)
  /\ \E r \in RowIds : ReferenceMarkup(ledger[r]) /\ ledger[r].transaction_type = "CASH"

\* C21: every persisted Sell order has a Sell product on every line, and in the
\* single-line product field when it has no lines
SellProductsOnly ==
  \A o \in OrderIds :
    orders[o].exists /\ orders[o].orderType = "Sell" =>
      \A i \in 1..Len(OrderLines(orders[o])) :
        OrderLines(orders[o])[i].product \in SellProducts

\* C22: every persisted order has positive amounts on every line, and in the
\* single-line fields when it has no lines
PositiveAmounts ==
  \A o \in OrderIds :
    orders[o].exists =>
      \A i \in 1..Len(OrderLines(orders[o])) :
        /\ OrderLines(orders[o])[i].currencyAmount > 0
        /\ OrderLines(orders[o])[i].amountInINR > 0

\* the fields of a body that violate a rule of the intake: the format rules,
\* the documents of the purpose, the fields and the products of a Sell order
FormViolations(b) ==
  validationResult(b)
  \cup missingRequiredDocs(b)
  \cup {f \in SellDocs : b.orderType = "Sell" /\ f \notin b.docs}
  \cup {f \in {"product"} :
          /\ b.orderType = "Sell"
          /\ \E i \in 1..Len(b.orderDetails) : b.orderDetails[i].product \notin SellProducts}

\* C23: the error response to a body that violates rules of the intake lists
\* every violated field
AggregatedErrors ==
  [][\A b \in FormBodies :
       createForexRequest(b) /\ FormViolations(b) # {} =>
         FormViolations(b) \subseteq errors']_vars

Identity(row) ==
  <<row.currency_code, row.city_code, row.transaction_type, row.markup_type>>

\* C24: no two ledger rows share (currency_code, city_code, transaction_type,
\* markup_type)
IdentityUnique ==
  \A r1 \in RowIds, r2 \in RowIds :
    r1 # r2 /\ ledger[r1].exists /\ ledger[r2].exists =>
      Identity(ledger[r1]) # Identity(ledger[r2])

\* C26: for every (currency, city, transaction_type) at most one active row
\* matches, so the row a line resolves to is determined
ResolutionUnique ==
  \A r1 \in RowIds, r2 \in RowIds :
    /\ ledger[r1].exists /\ ledger[r2].exists
    /\ ledger[r1].isActive /\ ledger[r2].isActive
    /\ ledger[r1].currency_code = ledger[r2].currency_code
    /\ ledger[r1].city_code = ledger[r2].city_code
    /\ ledger[r1].transaction_type = ledger[r2].transaction_type
    => r1 = r2

RECURSIVE DeductedEffect(_, _)
DeductedEffect(r, n) ==
  IF n = 0 THEN 0
  ELSE DeductedEffect(r, n - 1) +
       (IF orders[n].exists /\ orders[n].stockDeducted THEN Effect(orders[n], r) ELSE 0)

\* C27: with no request in progress, every quantity is the initial one minus
\* the Buy lines and plus the Sell lines of the orders with stock_deducted, and
\* an order has stock_deducted exactly when it is Approved
LedgerConservation ==
  AllIdle =>
    /\ \A r \in RowIds :
         ledger[r].quantity = InitLedger[r].quantity + DeductedEffect(r, MaxOrders)
    /\ \A o \in OrderIds :
         orders[o].exists => (orders[o].stockDeducted <=> orders[o].status = "Approved")

\* the ledger as the approval of handler p found it
LedgerAtStart(p) == [r \in RowIds |-> [ledger[r] EXCEPT !.quantity = startQty[p][r]]]

\* C28: a deduction fails only for lines the stock validation refuses on the
\* same ledger: when the validation of the lines succeeds and no other request
\* changes the ledger, the deduction of the lines succeeds
ValidationImpliesDeduction ==
  \A p \in Procs :
    ApprovalDone(p, "STOCK_DEDUCTION_ERROR") =>
      LET led == LedgerAtStart(p)
          lines == DeductionLines(forexRequest[p])
          city == forexRequest[p].city
      IN ~\E sel \in FindOneChoices(led, lines, city) :
            validateStockAvailabilityFromMarkup(led, lines, sel)

\* C29: when one updateStock(1, 50, add) and one successful approval of a Buy
\* line of 60 on row 1 have both ended, however their reads and writes were
\* interleaved, the quantity of the row is the initial one + 50 - 60
NoLostAdjustment ==
  ( /\ AllIdle /\ stockPc = "idle"
    /\ calls = 2
    /\ adminResult = "success" /\ stockReq.operation = "add"
    /\ \E p \in Procs : ApprovalDone(p, "success") ) =>
    ledger[1].quantity = InitLedger[1].quantity + 50 - 60

\* C30: a refresh token is used at most once: over all the refreshTokens calls
\* that present it at most one issues new tokens, and once a call has issued
\* tokens with it the token is revoked
RefreshSingleUse ==
  \A t \in Tokens :
    /\ refreshed[t] <= 1
    /\ refreshed[t] >= 1 => refreshTokens[t].isRevoked

====
